---- MODULE Spec2Model ----
(***************************************************************************)
(* Model of src/common/slurm_auth.c: the authentication context, the lazy  *)
(* global context (g_context) with its configuration cache, and the two    *)
(* dispatch APIs, the ambient g_slurm_auth one and the c_slurm_auth one.   *)
(*                                                                         *)
(* Pointers are naturals, 0 being NULL.  Strings are TLA+ strings, NULLSTR *)
(* being the null char pointer.  Function pointers are the name of the     *)
(* plugin symbol they point to, NULLFN being the null function pointer.    *)
(***************************************************************************)
EXTENDS Naturals, Sequences, FiniteSets

\* ------------------------------------------------------------------ bounds
NThreads == 2    \* caller threads racing in SpecMT
MaxCtx == 2      \* context structures the heap can hold
MaxRack == 2     \* plugin racks plugrack_create can hand out
MaxCred == 2     \* credentials the mechanism can hand out
LoadCap == 2     \* the configuration-load counter saturates here

\* --------------------------------------------------------------- constants
NULLSTR == "<null>"
NULLFN == "<nullfn>"
PLUGIN_INVALID_HANDLE == "PLUGIN_INVALID_HANDLE"
SLURM_SUCCESS == "SLURM_SUCCESS"
SLURM_ERROR == "SLURM_ERROR"
SLURM_AUTH_NOBODY == "SLURM_AUTH_NOBODY"

Threads == 1..NThreads
CtxIds == 1..MaxCtx
RackIds == 1..MaxRack
Creds == 1..MaxCred

\* The fields of slurm_auth_ops_t, in declaration order.
slurm_auth_ops_t ==
    <<"alloc", "free", "activate", "verify", "get_uid", "get_gid",
      "pack", "unpack", "print">>

\* The symbol names slurm_auth_get_ops asks the plugin for, in order.
syms ==
    <<"slurm_auth_alloc", "slurm_auth_free", "slurm_auth_activate",
      "slurm_auth_verify", "slurm_auth_get_uid", "slurm_auth_get_gid",
      "slurm_auth_pack", "slurm_auth_unpack", "slurm_auth_print">>

n_syms == Len(syms)

Range(s) == {s[i] : i \in 1..Len(s)}

\* Offset of a field in the operations structure: c->ops.<field>.
FieldIndex(field) == CHOOSE i \in 1..Len(slurm_auth_ops_t) : slurm_auth_ops_t[i] = field

Field(ops, field) == ops[FieldIndex(field)]

\* A zero-filled operations table (xmalloc returns zeroed memory).
NoOps == [i \in 1..Len(slurm_auth_ops_t) |-> NULLFN]

\* ------------------------------------------------------------- environment
\* The authentication plugins installed on the machine: what each exports.
Exports(type) ==
    CASE type = "auth/none" -> Range(syms)
      [] type = "auth/stale" -> Range(syms) \ {"slurm_auth_print"}
      [] OTHER -> {}

Installed == {"auth/none", "auth/stale"}

\* What the configuration file can hold (read_slurm_conf_ctl fills conf).
ConfFiles ==
    { [slurmd_port |-> 7003, authtype |-> NULLSTR, plugindir |-> NULLSTR],
      [slurmd_port |-> 7003, authtype |-> "auth/none", plugindir |-> "/opt/slurm/lib"],
      [slurmd_port |-> 7003, authtype |-> "auth/stale", plugindir |-> NULLSTR],
      [slurmd_port |-> 7003, authtype |-> "auth/absent", plugindir |-> "/opt/slurm/lib"],
      [slurmd_port |-> 7003, authtype |-> "", plugindir |-> NULLSTR],
      [slurmd_port |-> 0, authtype |-> "auth/none", plugindir |-> NULLSTR],
      [slurmd_port |-> 0, authtype |-> NULLSTR, plugindir |-> NULLSTR] }

\* Arguments callers pass as an authentication type.
TypeArgs == {NULLSTR, "", "auth/none"}

\* ------------------------------------------------------------------- state
VARIABLES
    g_context,    \* static slurm_auth_context_t g_context (0 is NULL)
    ctx,          \* the heap of struct slurm_auth_context, by address
    racks,        \* the plugin racks, by handle
    conf,         \* static slurm_ctl_conf_t conf
    config_lock,  \* owner of config_lock, 0 when free
    conffile,     \* the configuration file on disk
    pc,           \* per thread: the line it is at
    ret,          \* per thread: where the running getter returns to
    which,        \* per thread: which getter is running
    val,          \* per thread: the value the getter returned
    carg,         \* per thread: the argument c of slurm_auth_get_ops
    rc,           \* per thread: what slurm_auth_init returns
    entry,        \* per thread: "direct" (slurm_auth_init) or "ambient"
    last,         \* the API call that returned last, and what it returned
    verifiedOk,   \* credentials a verify call has returned success for
    resolved,     \* slurm_auth_init has returned through line 246
    nLoads,       \* calls of read_slurm_conf_ctl so far (saturating)
    nInitCtx,     \* contexts slurm_auth_init has constructed
    nUse,         \* successful plugrack_use_by_type calls (activations)
    crashed       \* the process died on a null dereference

vars ==
    <<g_context, ctx, racks, conf, config_lock, conffile, pc, ret, which, val,
      carg, rc, entry, last, verifiedOk, resolved, nLoads, nInitCtx, nUse,
      crashed>>

\* Groups of variables, for the UNCHANGED clauses.
cfg == <<conf, config_lock, nLoads>>
heap == <<ctx, racks>>
locals == <<ret, which, val, carg, rc, entry>>
counts == <<resolved, nInitCtx, nUse>>

\* A context structure's slot on the heap that holds no context.
FreeCtx ==
    [live |-> FALSE, auth_type |-> NULLSTR, plugin_list |-> 0,
     cur_plugin |-> PLUGIN_INVALID_HANDLE, ops |-> NoOps]

FreeRack ==
    [live |-> FALSE, major_type |-> NULLSTR, paranoia |-> NULLSTR,
     dir |-> NULLSTR]

\* The record of a call: api is "g" or "c" (a dispatch function, op its
\* operation), "create", "destroy", "init" or "get_ops"; c the context; fn
\* what it called ("none": nothing); res what it returned; arg the type
\* given to create, or the message get_ops logged; before the context as the
\* call found it.
NoCall ==
    [api |-> "none", op |-> "none", c |-> 0, cred |-> 0, buf |-> TRUE,
     fn |-> "none", res |-> "none", arg |-> "none", before |-> FreeCtx]

Init ==
    /\ g_context = 0
    /\ ctx = [i \in CtxIds |-> FreeCtx]
    /\ racks = [r \in RackIds |-> FreeRack]
    /\ conf = [slurmd_port |-> 0, authtype |-> NULLSTR, plugindir |-> NULLSTR]
    /\ config_lock = 0
    /\ conffile \in ConfFiles
    /\ pc = [t \in Threads |-> "idle"]
    /\ ret = [t \in Threads |-> "idle"]
    /\ which = [t \in Threads |-> "authtype"]
    /\ val = [t \in Threads |-> NULLSTR]
    /\ carg = [t \in Threads |-> 0]
    /\ rc = [t \in Threads |-> SLURM_SUCCESS]
    /\ entry = [t \in Threads |-> "direct"]
    /\ last = NoCall
    /\ verifiedOk = {}
    /\ resolved = FALSE
    /\ nLoads = 0
    /\ nInitCtx = 0
    /\ nUse = 0
    /\ crashed = FALSE

\* -------------------------------------------------- the plugin collaborators
\* The least free address of the heap, 0 when it is exhausted.
FreeCtxId ==
    IF \E i \in CtxIds : ~ctx[i].live
    THEN CHOOSE i \in CtxIds : ~ctx[i].live /\ \A j \in CtxIds : j < i => ctx[j].live
    ELSE 0

FreeRackId ==
    IF \E r \in RackIds : ~racks[r].live
    THEN CHOOSE r \in RackIds : ~racks[r].live /\ \A q \in RackIds : q < r => racks[q].live
    ELSE 0

\* plugrack_create(): a new, unconfigured rack, or NULL when it cannot be made.
plugrack_create(ok) == IF ok /\ FreeRackId # 0 THEN FreeRackId ELSE 0

NewRack == [FreeRack EXCEPT !.live = TRUE]

\* plugrack_use_by_type(rack, type): the plugin of that type among those the
\* rack found in the directories it has read.
plugrack_use_by_type(rack, type) ==
    IF rack # 0 /\ racks[rack].live /\ racks[rack].dir # NULLSTR /\ type \in Installed
    THEN type
    ELSE PLUGIN_INVALID_HANDLE

\* plugin_get_syms(plug, n, names, ptrs): ptrs[i] is the address of names[i]
\* in the plugin, NULL when the plugin does not export it.
plugin_get_syms_ptrs(plug, n, names) ==
    [i \in 1..n |-> IF names[i] \in Exports(plug) THEN names[i] ELSE NULLFN]

\* ... and the number of symbols it found.
plugin_get_syms(plug, n, names) ==
    Cardinality({i \in 1..n : plugin_get_syms_ptrs(plug, n, names)[i] # NULLFN})

\* read_slurm_conf_ctl(&conf): conf as the configuration file gives it.
read_slurm_conf_ctl(file) == file

\* -------------------------------------------------- the configuration cache
\* get_plugin_dir, lines 98-103: the cache after the locked section.
get_plugin_dir_body(cf, file) ==
    LET c1 == IF cf.slurmd_port = 0 THEN read_slurm_conf_ctl(file) ELSE cf
    IN IF c1.plugindir = NULLSTR THEN [c1 EXCEPT !.plugindir = "/usr/local/lib"] ELSE c1

\* get_auth_type without the default of lines 116-118.
get_auth_type_body_nodefault(cf, file) ==
    IF cf.slurmd_port = 0 THEN read_slurm_conf_ctl(file) ELSE cf

\* get_auth_type, lines 113-118: the cache after the locked section.
get_auth_type_body(cf, file) ==
    LET c1 == IF cf.slurmd_port = 0 THEN read_slurm_conf_ctl(file) ELSE cf
    IN IF c1.authtype = NULLSTR THEN [c1 EXCEPT !.authtype = "auth/none"] ELSE c1

Bump(n) == IF n < LoadCap THEN n + 1 ELSE n

\* A thread calls a getter: which one, and where it returns to.
CallGetter(t, g, to) ==
    /\ pc' = [pc EXCEPT ![t] = "cfg_lock"]
    /\ which' = [which EXCEPT ![t] = g]
    /\ ret' = [ret EXCEPT ![t] = to]

\* slurm_mutex_lock( &config_lock ), lines 97 and 112.
CfgLock(t) ==
    /\ ~crashed
    /\ pc[t] = "cfg_lock"
    /\ config_lock = 0
    /\ config_lock' = t
    /\ pc' = [pc EXCEPT ![t] = "cfg_body"]
    /\ UNCHANGED <<g_context, heap, conf, nLoads, conffile, locals, last,
                   verifiedOk, counts, crashed>>

\* The locked section and slurm_mutex_unlock, lines 98-104 and 113-119.
CfgBody(t) ==
    /\ ~crashed
    /\ pc[t] = "cfg_body"
    /\ config_lock = t
    /\ conf' = IF which[t] = "authtype"
               THEN get_auth_type_body(conf, conffile)
               ELSE get_plugin_dir_body(conf, conffile)
    /\ nLoads' = IF conf.slurmd_port = 0 THEN Bump(nLoads) ELSE nLoads
    /\ config_lock' = 0
    /\ pc' = [pc EXCEPT ![t] = "cfg_ret"]
    /\ UNCHANGED <<g_context, heap, conffile, locals, last, verifiedOk,
                   counts, crashed>>

\* return conf.plugindir / return conf.authtype, lines 106 and 121.
CfgRet(t) ==
    /\ ~crashed
    /\ pc[t] = "cfg_ret"
    /\ val' = [val EXCEPT ![t] = IF which[t] = "authtype" THEN conf.authtype
                                 ELSE conf.plugindir]
    /\ pc' = [pc EXCEPT ![t] = ret[t]]
    /\ ret' = [ret EXCEPT ![t] = "idle"]
    /\ which' = [which EXCEPT ![t] = "authtype"]
    /\ UNCHANGED <<g_context, heap, cfg, conffile, carg, rc, entry, last,
                   verifiedOk, counts, crashed>>

\* ------------------------------------------------ slurm_auth_context_create
\* The structure slurm_auth_context_create returns (live: it returned one);
\* dupOk says whether the allocations succeeded.
slurm_auth_context_create(auth_type, dupOk) ==
    IF auth_type = NULLSTR THEN FreeCtx
    ELSE IF ~dupOk THEN FreeCtx
    ELSE [live |-> TRUE, auth_type |-> auth_type, plugin_list |-> 0,
          cur_plugin |-> PLUGIN_INVALID_HANDLE, ops |-> NoOps]

\* The heap and the returned address after a call of slurm_auth_context_create.
CreateAt(auth_type, dupOk) ==
    LET s == slurm_auth_context_create(auth_type, dupOk /\ FreeCtxId # 0)
    IN [addr |-> IF s.live THEN FreeCtxId ELSE 0,
        heap |-> IF s.live THEN [ctx EXCEPT ![FreeCtxId] = s] ELSE ctx]

\* ------------------------------------------------------- the mechanism
\* What a capability of the mechanism can return (credentials are opaque to
\* this file: what a mechanism returns for one is the mechanism's business).
MechResults(fn) ==
    CASE fn = "slurm_auth_alloc" -> {"NULL", "cred"}
      [] fn \in {"slurm_auth_free", "slurm_auth_pack", "slurm_auth_print"} -> {"void"}
      [] fn \in {"slurm_auth_activate", "slurm_auth_verify", "slurm_auth_unpack"} ->
             {SLURM_SUCCESS, SLURM_ERROR}
      [] fn \in {"slurm_auth_get_uid", "slurm_auth_get_gid"} -> {"id", SLURM_AUTH_NOBODY}
      [] OTHER -> {"void"}

\* What a call can return, by the return type of the dispatch function.
TypeResults(op) == MechResults(syms[FieldIndex(op)])

\* What a dispatch function returns when it does not reach the mechanism.
Degraded(op) ==
    CASE op = "alloc" -> "NULL"
      [] op \in {"activate", "verify", "unpack"} -> SLURM_ERROR
      [] op \in {"get_uid", "get_gid"} -> SLURM_AUTH_NOBODY
      [] OTHER -> "void"

Ops == Range(slurm_auth_ops_t)

\* The operations that take a buffer or a stream.
BufOps == {"pack", "unpack", "print"}

\* The argument lists a caller can pass: credential (0 is NULL) and, for the
\* operations that take one, whether the buffer is non-null.
Args(op) ==
    IF op = "alloc" THEN {[cred |-> 0, buf |-> TRUE]}
    ELSE [cred : 0..MaxCred, buf : IF op \in BufOps THEN BOOLEAN ELSE {TRUE}]

\* The mechanism's verify returned success for a credential.
Verified(fn, cred, res) ==
    IF fn = "slurm_auth_verify" /\ res = SLURM_SUCCESS /\ cred # 0
    THEN verifiedOk \cup {cred}
    ELSE verifiedOk

CallRec(api, op, c, a, fn, res) ==
    [NoCall EXCEPT !.api = api, !.op = op, !.c = c, !.cred = a.cred,
                   !.buf = a.buf, !.fn = fn, !.res = res]

\* The call (*fn)(...) of a dispatch function: through a null pointer it is
\* undefined (the process dies, or anything of the return type comes back),
\* through a plugin symbol it returns what the mechanism returns.
Invoke(api, op, c, a, fn) ==
    IF fn = NULLFN
    THEN \/ /\ crashed' = TRUE
            /\ last' = CallRec(api, op, c, a, NULLFN, "crash")
            /\ UNCHANGED verifiedOk
         \/ /\ \E res \in TypeResults(op) :
                  last' = CallRec(api, op, c, a, NULLFN, res)
            /\ UNCHANGED <<crashed, verifiedOk>>
    ELSE \E res \in MechResults(fn) :
            /\ last' = CallRec(api, op, c, a, fn, res)
            /\ verifiedOk' = Verified(fn, a.cred, res)
            /\ UNCHANGED crashed

\* A dispatch function returns without calling anything.
Return(api, op, c, a, res) ==
    /\ last' = CallRec(api, op, c, a, "none", res)
    /\ UNCHANGED <<crashed, verifiedOk>>

\* ------------------------------------------------------- slurm_auth_init
\* A thread calls slurm_auth_init().
CallInit(t) ==
    /\ ~crashed
    /\ pc[t] = "idle"
    /\ entry' = [entry EXCEPT ![t] = "direct"]
    /\ pc' = [pc EXCEPT ![t] = "init_231"]
    /\ UNCHANGED <<g_context, heap, cfg, conffile, ret, which, val, carg, rc,
                   last, verifiedOk, counts, crashed>>

\* slurm_auth_init without the test of g_context at line 231.
Init231_nocheck(t) ==
    /\ ~crashed
    /\ pc[t] = "init_231"
    /\ CallGetter(t, "authtype", "init_236")
    /\ UNCHANGED <<g_context, heap, cfg, conffile, val, carg, rc, entry, last,
                   verifiedOk, counts, crashed>>

\* if ( g_context ) return SLURM_SUCCESS; else get_auth_type(), lines 231-236.
Init231(t) ==
    /\ ~crashed
    /\ pc[t] = "init_231"
    /\ IF g_context # 0
       THEN /\ rc' = [rc EXCEPT ![t] = SLURM_SUCCESS]
            /\ pc' = [pc EXCEPT ![t] = "init_ret"]
            /\ UNCHANGED <<which, ret>>
       ELSE /\ CallGetter(t, "authtype", "init_236")
            /\ UNCHANGED rc
    /\ UNCHANGED <<g_context, heap, cfg, conffile, val, carg, entry, last,
                   verifiedOk, counts, crashed>>

\* g_context = slurm_auth_context_create( get_auth_type() ), line 236.
Init236(t) ==
    /\ ~crashed
    /\ pc[t] = "init_236"
    /\ \E dupOk \in BOOLEAN :
          LET r == CreateAt(val[t], dupOk)
          IN /\ ctx' = r.heap
             /\ g_context' = r.addr
             /\ nInitCtx' = IF r.addr # 0 THEN nInitCtx + 1 ELSE nInitCtx
    /\ val' = [val EXCEPT ![t] = NULLSTR]
    /\ pc' = [pc EXCEPT ![t] = "init_237"]
    /\ UNCHANGED <<racks, cfg, conffile, ret, which, carg, rc, entry, last,
                   verifiedOk, resolved, nUse, crashed>>

\* if ( g_context == NULL ) { verbose( ..., get_auth_type() ); ...}, lines 237-238.
Init237(t) ==
    /\ ~crashed
    /\ pc[t] = "init_237"
    /\ IF g_context = 0
       THEN CallGetter(t, "authtype", "init_239")
       ELSE /\ pc' = [pc EXCEPT ![t] = "init_242"]
            /\ UNCHANGED <<which, ret>>
    /\ UNCHANGED <<g_context, heap, cfg, conffile, val, carg, rc, entry, last,
                   verifiedOk, counts, crashed>>

\* return SLURM_ERROR, line 239.
Init239(t) ==
    /\ ~crashed
    /\ pc[t] = "init_239"
    /\ rc' = [rc EXCEPT ![t] = SLURM_ERROR]
    /\ val' = [val EXCEPT ![t] = NULLSTR]
    /\ pc' = [pc EXCEPT ![t] = "init_ret"]
    /\ UNCHANGED <<g_context, heap, cfg, conffile, ret, which, carg, entry,
                   last, verifiedOk, counts, crashed>>

\* slurm_auth_get_ops( g_context ): the argument is read, line 242.
Init242(t) ==
    /\ ~crashed
    /\ pc[t] = "init_242"
    /\ carg' = [carg EXCEPT ![t] = g_context]
    /\ pc' = [pc EXCEPT ![t] = "ops_149"]
    /\ UNCHANGED <<g_context, heap, cfg, conffile, ret, which, val, rc, entry,
                   last, verifiedOk, counts, crashed>>

\* slurm_auth_get_ops returns, NULL (when ~ok) after the message msg to
\* verbose() or &c->ops, and slurm_auth_init returns on it, lines 242-247.
OpsReturn(t, ok, msg) ==
    /\ rc' = [rc EXCEPT ![t] = IF ok THEN SLURM_SUCCESS ELSE SLURM_ERROR]
    /\ last' = [NoCall EXCEPT !.api = "get_ops", !.c = carg[t], !.arg = msg,
                              !.res = IF ok THEN "ops" ELSE "NULL"]
    /\ resolved' = (resolved \/ ok)
    /\ carg' = [carg EXCEPT ![t] = 0]
    /\ pc' = [pc EXCEPT ![t] = "init_ret"]

\* ------------------------------------------------------ slurm_auth_get_ops
\* if ( c->plugin_list == NULL ), line 149.
Ops149(t) ==
    /\ ~crashed
    /\ pc[t] = "ops_149"
    /\ IF carg[t] = 0
       THEN /\ crashed' = TRUE
            /\ UNCHANGED pc
       ELSE /\ pc' = [pc EXCEPT ![t] = IF ctx[carg[t]].plugin_list = 0
                                       THEN "ops_150" ELSE "ops_162"]
            /\ UNCHANGED crashed
    /\ UNCHANGED <<g_context, heap, cfg, conffile, locals, last, verifiedOk,
                   counts>>

\* c->plugin_list = plugrack_create(); on NULL return NULL; else
\* plugrack_set_major_type, plugrack_set_paranoia, get_plugin_dir(),
\* lines 150-158.
Ops150(t) ==
    /\ ~crashed
    /\ pc[t] = "ops_150"
    /\ \E ok \in BOOLEAN :
          LET r == plugrack_create(ok)
          IN /\ ctx' = [ctx EXCEPT ![carg[t]].plugin_list = r]
             /\ IF r = 0
                THEN /\ OpsReturn(t, FALSE, "Unable to create a plugin manager")
                     /\ UNCHANGED <<racks, which, ret>>
                ELSE /\ racks' = [racks EXCEPT ![r] =
                                    [NewRack EXCEPT !.major_type = "auth",
                                                    !.paranoia = "PLUGRACK_PARANOIA_NONE"]]
                     /\ CallGetter(t, "plugindir", "ops_158")
                     /\ UNCHANGED <<rc, resolved, carg, last>>
    /\ UNCHANGED <<g_context, cfg, conffile, val, entry, verifiedOk,
                   nInitCtx, nUse, crashed>>

\* plugrack_read_dir( c->plugin_list, get_plugin_dir() ), line 158.
Ops158(t) ==
    /\ ~crashed
    /\ pc[t] = "ops_158"
    /\ racks' = IF ctx[carg[t]].plugin_list # 0
                THEN [racks EXCEPT ![ctx[carg[t]].plugin_list].dir = val[t]]
                ELSE racks
    /\ val' = [val EXCEPT ![t] = NULLSTR]
    /\ pc' = [pc EXCEPT ![t] = "ops_162"]
    /\ UNCHANGED <<g_context, ctx, cfg, conffile, ret, which, carg, rc, entry,
                   last, verifiedOk, counts, crashed>>

\* c->cur_plugin = plugrack_use_by_type( c->plugin_list, c->auth_type ); on
\* PLUGIN_INVALID_HANDLE return NULL, lines 162-166.
Ops162(t) ==
    /\ ~crashed
    /\ pc[t] = "ops_162"
    /\ LET c == ctx[carg[t]]
           h == plugrack_use_by_type(c.plugin_list, c.auth_type)
       IN /\ ctx' = [ctx EXCEPT ![carg[t]].cur_plugin = h]
          /\ IF h = PLUGIN_INVALID_HANDLE
             THEN /\ OpsReturn(t, FALSE, "can't find a plugin for type %s")
                  /\ UNCHANGED nUse
             ELSE /\ pc' = [pc EXCEPT ![t] = "ops_169"]
                  /\ nUse' = nUse + 1
                  /\ UNCHANGED <<rc, resolved, carg, last>>
    /\ UNCHANGED <<g_context, racks, cfg, conffile, ret, which, val, entry,
                   verifiedOk, nInitCtx, crashed>>

\* if ( plugin_get_syms( c->cur_plugin, n_syms, syms, &c->ops ) < n_syms )
\* return NULL; return &c->ops, lines 169-177.
Ops169(t) ==
    /\ ~crashed
    /\ pc[t] = "ops_169"
    /\ LET plug == ctx[carg[t]].cur_plugin
       IN /\ ctx' = [ctx EXCEPT ![carg[t]].ops = plugin_get_syms_ptrs(plug, n_syms, syms)]
          /\ IF plugin_get_syms(plug, n_syms, syms) < n_syms
             THEN OpsReturn(t, FALSE, "incomplete plugin detected")
             ELSE OpsReturn(t, TRUE, "none")
    /\ UNCHANGED <<g_context, racks, cfg, conffile, ret, which, val, entry,
                   verifiedOk, nInitCtx, nUse, crashed>>

\* --------------------------------------------------------- the ambient API
\* A thread calls one of the g_slurm_auth functions.
CallAmbient(t) ==
    /\ ~crashed
    /\ pc[t] = "idle"
    /\ entry' = [entry EXCEPT ![t] = "ambient"]
    /\ pc' = [pc EXCEPT ![t] = "g_check"]
    /\ UNCHANGED <<g_context, heap, cfg, conffile, ret, which, val, carg, rc,
                   last, verifiedOk, counts, crashed>>

\* if ( ! g_context ) slurm_auth_init(), lines 364-365 (and 377, 390, ...).
GCheck(t) ==
    /\ ~crashed
    /\ pc[t] = "g_check"
    /\ pc' = [pc EXCEPT ![t] = IF g_context = 0 THEN "init_231" ELSE "g_disp"]
    /\ UNCHANGED <<g_context, heap, cfg, conffile, locals, last, verifiedOk,
                   counts, crashed>>

\* The call is over: the thread's locals are dead.
Done(t) ==
    /\ pc' = [pc EXCEPT ![t] = "idle"]
    /\ rc' = [rc EXCEPT ![t] = SLURM_SUCCESS]
    /\ entry' = [entry EXCEPT ![t] = "direct"]

\* slurm_auth_init returns: to its caller (its result is kept in last), or
\* into the ambient function, which returns its degraded result on failure,
\* lines 365-368; ops are the operations the caller may be calling.
InitRet(t, ops) ==
    /\ ~crashed
    /\ pc[t] = "init_ret"
    /\ IF entry[t] = "direct"
       THEN /\ Done(t)
            /\ last' = [NoCall EXCEPT !.api = "init", !.c = g_context, !.res = rc[t]]
            /\ UNCHANGED <<crashed, verifiedOk>>
       ELSE IF rc[t] # SLURM_SUCCESS
       THEN /\ Done(t)
            /\ \E op \in ops : \E a \in Args(op) :
                  Return("g", op, g_context, a, Degraded(op))
       ELSE /\ pc' = [pc EXCEPT ![t] = "g_disp"]
            /\ UNCHANGED <<rc, entry, last, crashed, verifiedOk>>
    /\ UNCHANGED <<g_context, heap, cfg, conffile, ret, which, val, carg,
                   counts>>

\* The slot an ambient function calls through: g_context->ops.<op>.
g_slot(op) == Field(ctx[g_context].ops, op)

\* return (*(g_context->ops.<op>))( ... ), lines 371, 384, 397, ..., 475.
GDisp(t, ops) ==
    /\ ~crashed
    /\ pc[t] = "g_disp"
    /\ Done(t)
    /\ \E op \in ops : \E a \in Args(op) :
          IF g_context = 0
          THEN /\ crashed' = TRUE
               /\ last' = CallRec("g", op, 0, a, NULLFN, "crash")
               /\ UNCHANGED verifiedOk
          ELSE Invoke("g", op, g_context, a, g_slot(op))
    /\ UNCHANGED <<g_context, heap, cfg, conffile, ret, which, val, carg,
                   counts>>

Thread(t, ops) ==
    \/ CallInit(t) \/ Init231(t) \/ Init236(t) \/ Init237(t) \/ Init239(t)
    \/ Init242(t) \/ Ops149(t) \/ Ops150(t) \/ Ops158(t) \/ Ops162(t)
    \/ Ops169(t) \/ CallAmbient(t) \/ GCheck(t) \/ InitRet(t, ops)
    \/ GDisp(t, ops) \/ CfgLock(t) \/ CfgBody(t) \/ CfgRet(t)

\* ------------------------------------------------ the explicit-context API
\* What a c_slurm_auth function does: returns res, or calls through fn.
Ret(res) == [call |-> FALSE, fn |-> "none", res |-> res]
Call(fn) == [call |-> TRUE, fn |-> fn, res |-> "none"]

\* c_slurm_auth_alloc( c ), lines 255-264.
c_slurm_auth_alloc(c) ==
    IF c = 0 THEN Ret("NULL")
    ELSE IF Field(ctx[c].ops, "alloc") # NULLFN
    THEN Call(Field(ctx[c].ops, "alloc"))
    ELSE Ret("NULL")

\* c_slurm_auth_free( c, cred ), lines 266-273.
c_slurm_auth_free(c, cred) ==
    IF c = 0 \/ cred = 0 THEN Ret("void")
    ELSE IF Field(ctx[c].ops, "free") # NULLFN
    THEN Call(Field(ctx[c].ops, "free"))
    ELSE Ret("void")

\* c_slurm_auth_activate( c, cred, secs ), lines 275-284.
c_slurm_auth_activate(c, cred) ==
    IF c = 0 \/ cred = 0 THEN Ret(SLURM_ERROR)
    ELSE IF Field(ctx[c].ops, "activate") # NULLFN
    THEN Call(Field(ctx[c].ops, "activate"))
    ELSE Ret(SLURM_ERROR)

\* c_slurm_auth_verify( c, cred ), lines 286-295.
c_slurm_auth_verify(c, cred) ==
    IF c = 0 \/ cred = 0 THEN Ret(SLURM_ERROR)
    ELSE IF Field(ctx[c].ops, "verify") # NULLFN
    THEN Call(Field(ctx[c].ops, "verify"))
    ELSE Ret(SLURM_ERROR)

\* c_slurm_auth_get_uid calling through the slot next to its own.
c_slurm_auth_get_uid_gidslot(c, cred) ==
    IF c = 0 \/ cred = 0 THEN Ret(SLURM_AUTH_NOBODY)
    ELSE IF Field(ctx[c].ops, "verify") # NULLFN
    THEN Call(Field(ctx[c].ops, "get_gid"))
    ELSE Ret(SLURM_AUTH_NOBODY)

\* c_slurm_auth_get_uid( c, cred ), lines 297-306: tests ops.verify, calls
\* ops.get_uid.
c_slurm_auth_get_uid(c, cred) ==
    IF c = 0 \/ cred = 0 THEN Ret(SLURM_AUTH_NOBODY)
    ELSE IF Field(ctx[c].ops, "verify") # NULLFN
    THEN Call(Field(ctx[c].ops, "get_uid"))
    ELSE Ret(SLURM_AUTH_NOBODY)

\* c_slurm_auth_get_gid( c, cred ), lines 308-317: tests ops.verify, calls
\* ops.get_gid.
c_slurm_auth_get_gid(c, cred) ==
    IF c = 0 \/ cred = 0 THEN Ret(SLURM_AUTH_NOBODY)
    ELSE IF Field(ctx[c].ops, "verify") # NULLFN
    THEN Call(Field(ctx[c].ops, "get_gid"))
    ELSE Ret(SLURM_AUTH_NOBODY)

\* c_slurm_auth_pack without the test of buf.
c_slurm_auth_pack_nobuf(c, cred, buf) ==
    IF c = 0 \/ cred = 0 THEN Ret("void")
    ELSE IF Field(ctx[c].ops, "pack") # NULLFN
    THEN Call(Field(ctx[c].ops, "pack"))
    ELSE Ret("void")

\* c_slurm_auth_pack( c, cred, buf ), lines 320-328; buf: buf is not NULL.
c_slurm_auth_pack(c, cred, buf) ==
    IF c = 0 \/ cred = 0 \/ ~buf THEN Ret("void")
    ELSE IF Field(ctx[c].ops, "pack") # NULLFN
    THEN Call(Field(ctx[c].ops, "pack"))
    ELSE Ret("void")

\* c_slurm_auth_unpack( c, cred, buf ), lines 331-341.
c_slurm_auth_unpack(c, cred, buf) ==
    IF c = 0 \/ cred = 0 \/ ~buf THEN Ret(SLURM_ERROR)
    ELSE IF Field(ctx[c].ops, "unpack") # NULLFN
    THEN Call(Field(ctx[c].ops, "unpack"))
    ELSE Ret(SLURM_ERROR)

\* c_slurm_auth_print( c, cred, fp ), lines 343-351.
c_slurm_auth_print(c, cred, fp) ==
    IF c = 0 \/ cred = 0 \/ ~fp THEN Ret("void")
    ELSE IF Field(ctx[c].ops, "print") # NULLFN
    THEN Call(Field(ctx[c].ops, "print"))
    ELSE Ret("void")

c_dispatch(op, c, a) ==
    CASE op = "alloc" -> c_slurm_auth_alloc(c)
      [] op = "free" -> c_slurm_auth_free(c, a.cred)
      [] op = "activate" -> c_slurm_auth_activate(c, a.cred)
      [] op = "verify" -> c_slurm_auth_verify(c, a.cred)
      [] op = "get_uid" -> c_slurm_auth_get_uid(c, a.cred)
      [] op = "get_gid" -> c_slurm_auth_get_gid(c, a.cred)
      [] op = "pack" -> c_slurm_auth_pack(c, a.cred, a.buf)
      [] op = "unpack" -> c_slurm_auth_unpack(c, a.cred, a.buf)
      [] OTHER -> c_slurm_auth_print(c, a.cred, a.buf)

\* The callers of the explicit API run between the calls of the threads.
Idle == \A t \in Threads : pc[t] = "idle"

\* The contexts a caller holds: those slurm_auth_context_create gave it
\* (g_context is static: no caller holds the global context), and NULL.
Held == {i \in CtxIds : ctx[i].live /\ i # g_context}

\* A caller calls slurm_auth_context_create( auth_type ), lines 181-207.
CCreate ==
    /\ ~crashed
    /\ Idle
    /\ \E arg \in TypeArgs : \E dupOk \in BOOLEAN :
          LET r == CreateAt(arg, dupOk)
          IN /\ ctx' = r.heap
             /\ last' = [NoCall EXCEPT !.api = "create", !.arg = arg, !.c = r.addr,
                                       !.res = IF r.addr = 0 THEN "NULL" ELSE "context"]
    /\ UNCHANGED <<g_context, racks, cfg, conffile, pc, locals, verifiedOk,
                   counts, crashed>>

\* plugrack_destroy( rack ): the rack is released, unless a plugin of it is
\* still in use (~ok), and then it is left as it is.
plugrack_destroy(rack, ok) == IF ok THEN SLURM_SUCCESS ELSE SLURM_ERROR

\* slurm_auth_context_destroy without the test of plugrack_destroy's result.
slurm_auth_context_destroy_unchecked(c, ok) ==
    [res |-> SLURM_SUCCESS, freed |-> TRUE,
     rackGone |-> ctx[c].plugin_list # 0
                  /\ plugrack_destroy(ctx[c].plugin_list, ok) = SLURM_SUCCESS,
     fn |-> IF ctx[c].plugin_list # 0 THEN "plugrack_destroy" ELSE "none"]

\* slurm_auth_context_destroy without the test of c->plugin_list: the rack
\* is destroyed whether the context has one or not.
slurm_auth_context_destroy_norack(c, ok) ==
    IF plugrack_destroy(ctx[c].plugin_list, ok) # SLURM_SUCCESS
    THEN [res |-> SLURM_ERROR, freed |-> FALSE, rackGone |-> FALSE,
          fn |-> "plugrack_destroy"]
    ELSE [res |-> SLURM_SUCCESS, freed |-> TRUE,
          rackGone |-> ctx[c].plugin_list # 0, fn |-> "plugrack_destroy"]

\* slurm_auth_context_destroy( c ), lines 209-226: what it returns, whether
\* it released the context, whether the rack was released, and the function
\* of the plugin rack it called ("none": it called none).
slurm_auth_context_destroy(c, ok) ==
    IF ctx[c].plugin_list # 0 /\ plugrack_destroy(ctx[c].plugin_list, ok) # SLURM_SUCCESS
    THEN [res |-> SLURM_ERROR, freed |-> FALSE, rackGone |-> FALSE,
          fn |-> "plugrack_destroy"]
    ELSE [res |-> SLURM_SUCCESS, freed |-> TRUE, rackGone |-> ctx[c].plugin_list # 0,
          fn |-> IF ctx[c].plugin_list # 0 THEN "plugrack_destroy" ELSE "none"]

\* A caller calls slurm_auth_context_destroy( c ) on a context it holds.
CDestroy ==
    /\ ~crashed
    /\ Idle
    /\ \E c \in Held : \E ok \in BOOLEAN :
          LET d == slurm_auth_context_destroy(c, ok)
          IN /\ ctx' = IF d.freed THEN [ctx EXCEPT ![c] = FreeCtx] ELSE ctx
             /\ racks' = IF d.rackGone
                         THEN [racks EXCEPT ![ctx[c].plugin_list] = FreeRack]
                         ELSE racks
             /\ last' = [NoCall EXCEPT !.api = "destroy", !.c = c, !.res = d.res,
                                       !.fn = d.fn, !.before = ctx[c]]
    /\ UNCHANGED <<g_context, cfg, conffile, pc, locals, verifiedOk, counts,
                   crashed>>

\* A caller calls a c_slurm_auth function on a context it holds, or on NULL.
CCall ==
    /\ ~crashed
    /\ Idle
    /\ \E op \in Ops : \E c \in Held \cup {0} : \E a \in Args(op) :
          LET d == c_dispatch(op, c, a)
          IN IF d.call
             THEN Invoke("c", op, c, a, d.fn)
             ELSE Return("c", op, c, a, d.res)
    /\ UNCHANGED <<g_context, heap, cfg, conffile, pc, locals, counts>>

\* ------------------------------------------------------ the specifications
\* The program with one caller: the ambient API, slurm_auth_init and the
\* explicit-context API, called one after the other.
Next == Thread(1, Ops) \/ CCreate \/ CDestroy \/ CCall

Spec == Init /\ [][Next]_vars

\* The two halves of that program taken alone. The static g_context is out
\* of a caller's reach and an explicit context is out of slurm_auth_init's,
\* so the halves share nothing but the allocator.
NextAmbient == Thread(1, Ops)

SpecAmbient == Init /\ [][NextAmbient]_vars

NextApi == CCreate \/ CDestroy \/ CCall

SpecApi == Init /\ [][NextApi]_vars

\* The program with NThreads callers of slurm_auth_init and
\* g_slurm_auth_alloc running concurrently.
NextMT == \E t \in Threads : Thread(t, {"alloc"})

SpecMT == Init /\ [][NextMT]_vars

\* The explicit-context API as functions of a context structure: one context
\* of any content is on the heap (with its rack, when it has one).
\* The operation tables drawn: none, one, all but one or all of the slots
\* populated (no function reads more than two slots, so every combination of
\* the slots a function reads is among them).
Tables ==
    {[i \in 1..n_syms |-> IF i \in S THEN syms[i] ELSE NULLFN] :
        S \in {T \in SUBSET (1..n_syms) :
                  Cardinality(T) <= 1 \/ Cardinality(T) >= n_syms - 1}}

CtxValues ==
    {c \in [live : {TRUE}, auth_type : {"auth/none"}, plugin_list : {0, 1},
            cur_plugin : {PLUGIN_INVALID_HANDLE, "auth/none"}, ops : Tables] :
        c.plugin_list = 0 => c.cur_plugin = PLUGIN_INVALID_HANDLE}

InitCtx ==
    /\ g_context = 0
    /\ \E c \in CtxValues :
          /\ ctx = [i \in CtxIds |-> IF i = 1 THEN c ELSE FreeCtx]
          /\ racks = [r \in RackIds |->
                        IF r = 1 /\ c.plugin_list = 1
                        THEN [live |-> TRUE, major_type |-> "auth",
                              paranoia |-> "PLUGRACK_PARANOIA_NONE",
                              dir |-> "/usr/local/lib"]
                        ELSE FreeRack]
    /\ conf = [slurmd_port |-> 0, authtype |-> NULLSTR, plugindir |-> NULLSTR]
    /\ config_lock = 0
    /\ conffile = [slurmd_port |-> 7003, authtype |-> NULLSTR, plugindir |-> NULLSTR]
    /\ pc = [t \in Threads |-> "idle"]
    /\ ret = [t \in Threads |-> "idle"]
    /\ which = [t \in Threads |-> "authtype"]
    /\ val = [t \in Threads |-> NULLSTR]
    /\ carg = [t \in Threads |-> 0]
    /\ rc = [t \in Threads |-> SLURM_SUCCESS]
    /\ entry = [t \in Threads |-> "direct"]
    /\ last = NoCall
    /\ verifiedOk = {}
    /\ resolved = FALSE
    /\ nLoads = 0
    /\ nInitCtx = 0
    /\ nUse = 0
    /\ crashed = FALSE

NextCtx == CDestroy \/ CCall

SpecCtx == InitCtx /\ [][NextCtx]_vars

\* The two dispatch APIs side by side: a caller holds one context structure
\* that a resolution has been through (its table empty, or filled by a
\* plugin with all or all but one of the symbols) while the one caller of
\* the ambient API initializes and uses the global context.
InitDispatch ==
    /\ InitCtx
    /\ ctx[1].plugin_list = 1
    /\ ctx[1].cur_plugin = "auth/none"
    /\ ctx[1].ops = NoOps \/ \E i \in 1..n_syms : \A j \in 1..n_syms :
                                j # i => ctx[1].ops[j] # NULLFN

NextDispatch == Thread(1, Ops) \/ CCall

SpecDispatch == InitDispatch /\ [][NextDispatch]_vars

\* ---------------------------------------------------------------- claims
FullTable(ops) == \A i \in 1..n_syms : ops[i] # NULLFN

LiveRacks == {r \in RackIds : racks[r].live}

\* C1: whenever slurm_auth_init fails, g_context is NULL when it returns (so
\* that the next call initializes again).
C1_FailedInitLeavesUnset ==
    \A t \in Threads :
        (pc[t] = "init_ret" /\ rc[t] = SLURM_ERROR) => g_context = 0

\* C2: however many threads make their first ambient call together, one
\* context is constructed, one registry created and one mechanism activated.
C2_ConstructOnce ==
    /\ nInitCtx <= 1
    /\ Cardinality(LiveRacks) <= 1
    /\ nUse <= 1

\* C3: while global initialization has not succeeded, every ambient call
\* returns its degraded result and calls through no slot (g_slurm_auth_verify
\* in particular never returns success).
C3_DegradedUntilInitialized ==
    (~resolved /\ last.api = "g") =>
        (last.fn = "none" /\ last.res = Degraded(last.op))

PartialTable(ops) == ~FullTable(ops) /\ \E i \in 1..n_syms : ops[i] # NULLFN

\* C4: a mechanism with fewer than nine of the capabilities never makes the
\* resolution of the global context succeed, and no dispatch call, ambient
\* or explicit, reaches the mechanism through the partly populated table.
C4_NoDispatchThroughPartialTable ==
    /\ (g_context # 0 /\ PartialTable(ctx[g_context].ops)) => ~resolved
    /\ (last.api \in {"g", "c"} /\ last.fn \in Range(syms) /\ last.c # 0)
           => ~PartialTable(ctx[last.c].ops)

\* C5: get_uid and get_gid return an identity other than nobody for a
\* credential only if a verify call on that credential returned success
\* before (stated of the calls that reach the mechanism: what a call through
\* a null slot returns is the matter of C3 and C6).
C5_IdentityOnlyAfterVerify ==
    (last.api \in {"g", "c"} /\ last.op \in {"get_uid", "get_gid"}
        /\ last.cred # 0 /\ last.fn # NULLFN /\ last.res = "id")
        => last.cred \in verifiedOk

\* C6: an explicit-context call whose capability slot is null never calls
\* through it: it returns its defined result.
C6_AbsentSlotNeverInvoked ==
    (last.api = "c" /\ last.c # 0 /\ Field(ctx[last.c].ops, last.op) = NULLFN)
        => (last.fn = "none" /\ last.res = Degraded(last.op))

\* The call recorded in r was given a null context, credential or buffer.
NullArgs(r) ==
    \/ r.c = 0
    \/ r.op # "alloc" /\ r.cred = 0
    \/ r.op \in BufOps /\ ~r.buf

\* C7: an explicit-context call given a null context, credential or buffer
\* returns its failure value, calls nothing and changes no context.
C7_NullArgsReturnSentinel ==
    /\ [](last.api = "c" /\ NullArgs(last)
            => last.fn = "none" /\ last.res = Degraded(last.op))
    /\ [][last'.api = "c" /\ NullArgs(last')
            => ctx' = ctx /\ racks' = racks /\ g_context' = g_context]_vars

C7_Witness ==
    /\ last.api = "c" /\ last.op = "pack" /\ ~last.buf
    /\ last.c # 0 /\ last.cred # 0
    /\ Field(ctx[last.c].ops, "pack") # NULLFN
    /\ last.fn = "none"

\* C8: after slurm_auth_context_create(t) for an installed type t,
\* c_slurm_auth_alloc on the context reaches the mechanism's alloc.
C8_FirstDispatchResolves ==
    (last.api = "c" /\ last.op = "alloc" /\ last.c # 0
        /\ ctx[last.c].auth_type \in Installed)
        => last.fn = "slurm_auth_alloc"

\* C9: slurm_auth_context_create returns no context for a null or empty
\* type; a context it returns has no registry handle and the invalid
\* mechanism handle.
C9_CreateRejectsEmpty ==
    last.api = "create" =>
        /\ last.arg \in {NULLSTR, ""} => last.c = 0
        /\ last.c # 0 => /\ ctx[last.c].plugin_list = 0
                         /\ ctx[last.c].cur_plugin = PLUGIN_INVALID_HANDLE

\* C10: slurm_auth_context_destroy returns an error and leaves the context
\* and its registry as they were when the registry cannot be released; it
\* releases the context, and the registry it owned, only otherwise.
C10_DestroyKeepsContextOnBusyRack ==
    last.api = "destroy" =>
        LET b == last.before
        IN /\ last.res \in {SLURM_SUCCESS, SLURM_ERROR}
           /\ last.res = SLURM_ERROR =>
                 /\ b.plugin_list # 0
                 /\ ctx[last.c] = b
                 /\ racks[b.plugin_list].live
           /\ last.res = SLURM_SUCCESS =>
                 /\ ~ctx[last.c].live
                 /\ b.plugin_list # 0 => ~racks[b.plugin_list].live

C10_Witness ==
    /\ last.api = "destroy" /\ last.res = SLURM_ERROR
    /\ last.before.plugin_list # 0
    /\ ctx[last.c].live

\* C11: slurm_auth_context_create with a valid type, followed at once by
\* slurm_auth_context_destroy of the context it returned, succeeds: the
\* context is released, and neither call creates, destroys or calls a
\* plugin rack.
C11_CreateThenDestroy ==
    /\ [][(last'.api = "create" /\ last' # last)
            => (racks' = racks /\ last'.fn = "none")]_vars
    /\ [][(last.api = "create" /\ last.c # 0 /\ last.arg \in Installed
            /\ last'.api = "destroy" /\ last'.c = last.c)
            => /\ last'.res = SLURM_SUCCESS
               /\ last'.fn = "none"
               /\ ~ctx'[last.c].live
               /\ racks' = racks]_vars

C11_Witness ==
    /\ last.api = "destroy" /\ last.res = SLURM_SUCCESS
    /\ last.before.live /\ last.before.auth_type = "auth/none"
    /\ last.before.plugin_list = 0
    /\ last.before.cur_plugin = PLUGIN_INVALID_HANDLE
    /\ last.before.ops = NoOps
    /\ ~ctx[last.c].live

\* C12: a free call, ambient or explicit, changes no context, no rack and
\* not the global context, however often it is repeated on a credential; and
\* a free call given a null credential returns without calling the
\* mechanism (stated of the contexts whose table is fully resolved: a call
\* through a null slot is the matter of C3 and C6).
C12_FreeIsIdempotent ==
    /\ []((last.api \in {"g", "c"} /\ last.op = "free" /\ last.cred = 0
            /\ (last.c # 0 => FullTable(ctx[last.c].ops)))
            => last.fn = "none")
    /\ [][(last'.op = "free" /\ last' # last)
            => (ctx' = ctx /\ racks' = racks /\ g_context' = g_context)]_vars

\* C13: in every state between two calls, if g_context is set then all nine
\* slots of its operation table are populated.
C13_SingletonTableFull ==
    (Idle /\ g_context # 0) => FullTable(ctx[g_context].ops)

\* The lines of slurm_auth_init past the test of g_context, and of
\* slurm_auth_get_ops.
InitLines ==
    {"init_236", "init_237", "init_239", "init_242", "ops_149", "ops_150",
     "ops_158", "ops_162", "ops_169"}

\* C14: once slurm_auth_init has succeeded, every further call of it (direct
\* or from an ambient function) returns success without constructing a
\* context, creating a rack or resolving again; g_context, its context and
\* the racks never change again; and under one caller at most one context is
\* ever bound to g_context.
C14_InitializedOnce ==
    /\ [](\A t \in Threads :
            /\ (resolved /\ pc[t] = "init_ret") => rc[t] = SLURM_SUCCESS
            /\ (resolved /\ pc[t] # "init_ret") => pc[t] \notin InitLines)
    /\ [](nInitCtx <= 1)
    /\ [](resolved => (g_context # 0 /\ ctx[g_context].live))
    /\ [][resolved => /\ g_context' = g_context
                      /\ ctx'[g_context] = ctx[g_context]
                      /\ racks' = racks
                      /\ nInitCtx' = nInitCtx
                      /\ nUse' = nUse]_vars

C14_Witness ==
    /\ resolved
    /\ last.api = "g" /\ last.fn = "slurm_auth_alloc"
    /\ pc[1] = "init_ret" /\ entry[1] = "direct" /\ rc[1] = SLURM_SUCCESS

\* C15: slurm_auth_get_ops creates the rack, then activates the plugin of
\* the type, then resolves the symbols, stopping at the first step that
\* fails (the order is that of Ops150, Ops162 and Ops169); it returns the
\* table if and only if no step failed; and what it returns tells its caller
\* which step failed: two calls that return the same value have failed, if
\* they failed, at the same step.
C15_ResolutionSteps ==
    /\ [](last.api = "get_ops" =>
            /\ last.res \in {"ops", "NULL"}
            /\ last.res = "ops" <=> last.arg = "none")
    /\ [][(last.api = "get_ops" /\ last'.api = "get_ops"
            /\ last'.res = last.res)
            => last'.arg = last.arg]_vars

\* C16: under any interleaving of the resolutions of a context, a rack is
\* created only while the context has none, so that every rack ever created
\* is the plugin_list of a context (none is orphaned), no two racks were
\* created for one context, and each is configured for "auth" with
\* PLUGRACK_PARANOIA_NONE.
C16_OneRegistryPerContext ==
    /\ \A r \in LiveRacks :
          /\ \E i \in CtxIds : ctx[i].live /\ ctx[i].plugin_list = r
          /\ racks[r].major_type = "auth"
          /\ racks[r].paranoia = "PLUGRACK_PARANOIA_NONE"
    /\ Cardinality(LiveRacks) <= Cardinality({i \in CtxIds : ctx[i].live})

\* C17: read_slurm_conf_ctl is called at most once in a run, whatever the
\* configuration holds and however the getters interleave; a thread reads
\* or writes conf only while it holds config_lock (in the locked section
\* and when it reads the value it returns); and a getter has released
\* config_lock when it returns.
C17_ConfigLoadedOnceUnderLock ==
    /\ nLoads <= 1
    /\ \A t \in Threads :
          /\ pc[t] \in {"cfg_body", "cfg_ret"} => config_lock = t
          /\ pc[t] \notin {"cfg_body", "cfg_ret"} => config_lock # t

\* The authentication type and the plugin directory a configuration file
\* stands for: what it gives, or the default when it gives none.
AuthTypeOf(file) ==
    IF file.authtype = NULLSTR THEN "auth/none" ELSE file.authtype

PluginDirOf(file) ==
    IF file.plugindir = NULLSTR THEN "/usr/local/lib" ELSE file.plugindir

\* C18: the global context is created with the configured authentication
\* type, "auth/none" when the configuration gives none; its rack reads the
\* configured plugin directory, "/usr/local/lib" when the configuration
\* gives none; and every call of a getter, the first and the later ones,
\* returns that same value.
C18_ConfigDefaults ==
    /\ g_context # 0 => ctx[g_context].auth_type = AuthTypeOf(conffile)
    /\ \A r \in LiveRacks :
          racks[r].dir # NULLSTR => racks[r].dir = PluginDirOf(conffile)
    /\ \A t \in Threads :
          /\ pc[t] \in {"init_236", "init_239"} => val[t] = AuthTypeOf(conffile)
          /\ pc[t] = "ops_158" => val[t] = PluginDirOf(conffile)

C18_Witness ==
    /\ conffile.authtype = NULLSTR /\ conffile.plugindir = NULLSTR
    /\ resolved /\ g_context # 0
    /\ ctx[g_context].auth_type = "auth/none"
    /\ ctx[g_context].plugin_list # 0
    /\ racks[ctx[g_context].plugin_list].dir = "/usr/local/lib"
    /\ nLoads >= 1

\* The symbol asked for slot i is the name of field i with the prefix of the
\* plugin API.
NamesInOrder ==
    /\ n_syms = Len(slurm_auth_ops_t)
    /\ \A i \in 1..n_syms : syms[i] = "slurm_auth_" \o slurm_auth_ops_t[i]

\* C19: the symbols are asked for in the order of the fields of
\* slurm_auth_ops_t, and on a context whose nine slots are resolved every
\* dispatch function, g_slurm_auth or c_slurm_auth (given non-null
\* arguments), calls the plugin function of its own name and returns what
\* that function returned; the credential the mechanism's verify accepted is
\* the caller's.
C19_DispatchByName ==
    /\ NamesInOrder
    /\ (/\ last.api \in {"g", "c"} /\ last.c # 0
        /\ FullTable(ctx[last.c].ops)
        /\ last.api = "c" => ~NullArgs(last))
        => /\ last.fn = "slurm_auth_" \o last.op
           /\ last.res \in MechResults(last.fn)
           /\ (last.op = "verify" /\ last.res = SLURM_SUCCESS /\ last.cred # 0)
                 => last.cred \in verifiedOk

C19_Witness ==
    /\ last.api = "c" /\ last.op = "get_uid" /\ last.c # 0 /\ last.cred # 0
    /\ FullTable(ctx[last.c].ops)
    /\ last.fn = "slurm_auth_get_uid" /\ last.res = "id"
    /\ resolved /\ g_context # 0 /\ FullTable(ctx[g_context].ops)
====
